---- MODULE Spec2Model ----
(***************************************************************************)
(* Model of containersvcmon.go: a monitor that runs a container as a       *)
(* service.  main validates the positional arguments and the flags,        *)
(* registers a goroutine that waits for SIGINT/SIGQUIT/SIGTERM, and enters *)
(* runLoop, which builds the Config from the flags and calls the blocking  *)
(* containersvc.Start again and again until the package level variable     *)
(* stopMonitoring is seen true.                                            *)
(*                                                                         *)
(* Two goroutines are modelled, one position variable each:                *)
(*   pc   the main goroutine (main -> parseCmdLnArgs -> ... -> runLoop)    *)
(*   hpc  the stopSigHandler goroutine                                     *)
(* stopMonitoring is a plain bool written by the handler and read by the   *)
(* loop with no synchronisation.  The write and the loop's reads are       *)
(* therefore a data race: a read of the loop returns loopView, the value   *)
(* the loop goroutine currently observes, which follows stopMonitoring     *)
(* only after the separate step FlagVisible.  Reads of the one location    *)
(* are coherent: once the loop has observed the write, every later read    *)
(* observes it.                                                            *)
(***************************************************************************)
EXTENDS Integers, Sequences, FiniteSets

\* ---------------------------------------------------------------- bounds
MaxArgs == 3        \* positional arguments tried: 0 .. MaxArgs
MaxStarts == 3      \* Start calls and returns are counted up to this
MaxStops == 2       \* Stop requests and flag writes are counted up to this
MaxSignals == 2     \* termination signals the environment sends
MaxPorts == 2       \* -port flags given on one command line (CfgSpec)

\* ------------------------------------------------------ program constants
ExitFailure == 255  \* os.Exit(255)
ExitSuccess == 0    \* main returns
SigChanCap == 1     \* make(chan os.Signal, 1)
ExitPanic == 2      \* status of a Go process that ends in a runtime panic

StopSignals == {"SIGINT", "SIGQUIT", "SIGTERM"}

VARIABLES
  nArgs,          \* len(flag.Args())
  imgExists,      \* os.Stat(imgPath) succeeds
  ports,          \* the -port values, each a string (sequence of characters)
  vols,           \* the -volume values
  restartPolicy,  \* the restart policy, the default or the -restart-policy value
  portIdx,        \* configure: entries of ports already put into portMap
  portMap,        \* configure: portMap, a set of <<hostPort, ctrPort>> pairs
  cfg,            \* {} until configure returns, then {the Config it built}
  pc,             \* position of the main goroutine
  exitStatus,     \* {} while the process runs, {status} once it has exited
  registered,     \* signal.Notify has subscribed sigChan
  sigChan,        \* the buffered channel of caught signals
  hpc,            \* position of the stopSigHandler goroutine
  sig,            \* the signal stopSigHandler received ("none" before)
  stopMonitoring, \* the package-level flag, as last written
  loopView,       \* the flag's value as the loop goroutine observes it
  ctr,            \* the container behind the adapter
  startErr,       \* err of the last Start return (err != nil)
  stopOutcome,    \* what the Stop request met and returned
  startCalls,     \* Start calls begun          (counted up to MaxStarts)
  startReturns,   \* Start calls returned       (counted up to MaxStarts)
  stopReqs,       \* force argument of every Stop request, in order
  flagWrites,     \* writes of stopMonitoring   (counted up to MaxStops)
  sigArrivals,    \* signals sent to the process after signal.Notify
  readTrue,       \* the loop has read the flag as true
  staleRead,      \* the loop has read the flag as false after it was written
  flagAtReturn,   \* stopMonitoring at the moment of the last Start return
  flagAtCond,     \* stopMonitoring at the moment of the last loop condition
  startsAfterFlag, \* Start calls begun with the flag already written
  backoffDone     \* a backoff sleep has ended since the last Start return

vars == <<nArgs, imgExists, ports, vols, restartPolicy, portIdx, portMap, cfg,
          pc, exitStatus, registered, sigChan, hpc, sig,
          stopMonitoring, loopView, ctr, startErr, stopOutcome, startCalls,
          startReturns, stopReqs, flagWrites, sigArrivals, readTrue,
          staleRead, flagAtReturn, flagAtCond, startsAfterFlag, backoffDone>>

inputVars == <<nArgs, imgExists, ports, vols, restartPolicy>>
cfgVars == <<portIdx, portMap, cfg>>
sigVars == <<registered, sigChan, hpc, sig, sigArrivals>>
flagVars == <<stopMonitoring, loopView, flagWrites>>
startVars == <<ctr, startErr, startCalls, startReturns, flagAtReturn>>
stopVars == <<stopReqs, stopOutcome>>
readVars == <<readTrue, staleRead>>
histVars == <<flagAtCond, startsAfterFlag, backoffDone>>

Alive == exitStatus = {}

\* ---------------------------------------------------------------- strings
\* A string is a sequence of one-character strings.

\* strings.Contains(s, c), for a substring c of one character.
Contains(s, c) == \E i \in 1..Len(s) : s[i] = c

\* Mutant of LastIndex: the first occurrence is taken (strings.Index).
FirstIndex(s, c) ==
  IF Contains(s, c)
    THEN (CHOOSE i \in 1..Len(s) :
            s[i] = c /\ \A j \in 1..Len(s) : s[j] = c => i <= j) - 1
    ELSE 0 - 1

\* strings.LastIndex(s, c): the 0-based index of the last c in s, -1 if none.
LastIndex(s, c) ==
  IF Contains(s, c)
    THEN (CHOOSE i \in 1..Len(s) :
            s[i] = c /\ \A j \in 1..Len(s) : s[j] = c => j <= i) - 1
    ELSE 0 - 1

\* s[:i] and s[i:], for a 0-based index i within the string.
SliceTo(s, i) == SubSeq(s, 1, i)
SliceFrom(s, i) == SubSeq(s, i + 1, Len(s))

\* portMap[k] = v on a map kept as a set of <<key, value>> pairs.
MapPut(m, k, v) == {e \in m : e[1] # k} \cup {<<k, v>>}

\* ----------------------------------------------------------------- inputs
\* The restart policies of containersvc.
No == "never"
OnFailure == "on-failure"
UnlessStopped == "unless-stopped"
Always == "always"

\* Values given to -port: "8:9", "8:7", "1:8:9", "8", ":9", "8:" and "".
PortEntries ==
  { <<"8", ":", "9">>, <<"8", ":", "7">>, <<"1", ":", "8", ":", "9">>,
    <<"8">>, <<":", "9">>, <<"8", ":">>, <<>> }

\* Values given to -volume: "v:d" and "v".
VolEntries == { <<"v", ":", "d">>, <<"v">> }

\* Values of the restart policy: the default, the other literals, and one
\* that is none of them.
PolicyValues == {No, OnFailure, UnlessStopped, Always, "sometimes"}

\* The sequences over S of at most n elements.
SeqsUpTo(S, n) == UNION {[1..k -> S] : k \in 0..n}

Count(n, max) == IF n < max THEN n + 1 ELSE n

\* The state of the process as main begins, whatever the command line.
Started ==
  /\ portIdx = 0
  /\ portMap = {}
  /\ cfg = {}
  /\ pc = "parseCmdLnArgs"
  /\ exitStatus = {}
  /\ registered = FALSE
  /\ sigChan = <<>>
  /\ hpc = "notStarted"
  /\ sig = "none"
  /\ stopMonitoring = FALSE
  /\ loopView = FALSE
  /\ ctr = "none"
  /\ startErr = FALSE
  /\ stopOutcome = "none"
  /\ startCalls = 0
  /\ startReturns = 0
  /\ stopReqs = <<>>
  /\ flagWrites = 0
  /\ sigArrivals = 0
  /\ readTrue = FALSE
  /\ staleRead = FALSE
  /\ flagAtReturn = FALSE
  /\ flagAtCond = FALSE
  /\ startsAfterFlag = 0
  /\ backoffDone = FALSE

\* Command lines for the whole program: one flag of each kind, well formed
\* or not.
Init ==
  /\ nArgs \in 0..MaxArgs
  /\ imgExists \in BOOLEAN
  /\ ports \in {<< <<"1", ":", "8", ":", "9">> >>, << <<"8">> >>}
  /\ vols \in {<< <<"v", ":", "d">> >>, << <<"v">> >>}
  /\ restartPolicy \in {Always, "sometimes"}
  /\ Started

\* Command lines for the start-up path: every combination of flag values.
InitCfg ==
  /\ nArgs \in 0..MaxArgs
  /\ imgExists \in BOOLEAN
  /\ ports \in SeqsUpTo(PortEntries, MaxPorts)
  /\ vols \in SeqsUpTo(VolEntries, 1)
  /\ restartPolicy \in PolicyValues
  /\ Started

\* os.Exit(status): the process ends, and every goroutine with it.
Exit(status) ==
  /\ pc' = "exited"
  /\ exitStatus' = {status}

\* ------------------------------------------------------------------ main

\* Mutant of ArgCountOk: only too few arguments are refused (len(args) < 2).
ArgCountAtLeast(n) == n >= 2

\* parseCmdLnArgs: exactly two positional arguments, or usage and exit 255.
ArgCountOk(n) == n = 2

ParseCmdLnArgs ==
  /\ Alive /\ pc = "parseCmdLnArgs"
  /\ IF ArgCountOk(nArgs)
       THEN pc' = "validateCmdLnArgs" /\ UNCHANGED exitStatus
       ELSE Exit(ExitFailure)
  /\ UNCHANGED <<inputVars, cfgVars, sigVars, flagVars, startVars, stopVars, readVars, histVars>>

\* validateCmdLnArgs: the image path must exist, or usage and exit 255.
ValidateCmdLnArgs ==
  /\ Alive /\ pc = "validateCmdLnArgs"
  /\ IF imgExists
       THEN pc' = "validateCmdLnFlags" /\ UNCHANGED exitStatus
       ELSE Exit(ExitFailure)
  /\ UNCHANGED <<inputVars, cfgVars, sigVars, flagVars, startVars, stopVars, readVars, histVars>>

\* Mutant of PortOk: the -port values are not checked.
PortOkUnchecked(port) == TRUE

\* validateCmdLnFlag, "port": strings.Contains(port, ":").
PortOk(port) == Contains(port, ":")

\* validateCmdLnFlag, "volume": strings.Contains(vol, ":").
VolOk(vol) == Contains(vol, ":")

\* Mutant of PolicyOk: the restart policy is not checked.
PolicyOkUnchecked(p) == TRUE

\* validateCmdLnFlag, "restart-policy": one of the four policies.
PolicyOk(p) == p = No \/ p = OnFailure \/ p = UnlessStopped \/ p = Always

\* validateCmdLnFlags: flag.Visit calls validateCmdLnFlag for every flag that
\* was set; any failure logs and exits 255.  A flag that was not set leaves
\* ports or vols empty, or restartPolicy at its default No, which pass.
ValidateCmdLnFlags ==
  /\ Alive /\ pc = "validateCmdLnFlags"
  /\ IF /\ \A i \in 1..Len(ports) : PortOk(ports[i])
        /\ \A i \in 1..Len(vols) : VolOk(vols[i])
        /\ PolicyOk(restartPolicy)
       THEN pc' = "regStopSigHandler" /\ UNCHANGED exitStatus
       ELSE Exit(ExitFailure)
  /\ UNCHANGED <<inputVars, cfgVars, sigVars, flagVars, startVars, stopVars,
                 readVars, histVars>>

\* Mutant of RegStopSigHandler: the registration is started as a goroutine of
\* its own (go regStopSigHandler(img)) and main goes on without it.
RegStopSigHandlerNotAwaited ==
  /\ Alive /\ pc = "regStopSigHandler"
  /\ pc' = "runLoop"
  /\ UNCHANGED <<inputVars, cfgVars, exitStatus, sigVars, flagVars, startVars,
                 stopVars, readVars, histVars>>

\* regStopSigHandler: make the channel, subscribe it, start the goroutine.
RegStopSigHandler ==
  /\ Alive /\ pc = "regStopSigHandler"
  /\ sigChan' = <<>>
  /\ registered' = TRUE
  /\ hpc' = "recv"
  /\ pc' = "runLoop"
  /\ UNCHANGED <<inputVars, cfgVars, exitStatus, sig, sigArrivals, flagVars, startVars,
                 stopVars, readVars, histVars>>

\* configure, one iteration of its loop over ports: the entry is split at its
\* last colon and put into portMap.  Slicing with the index -1 panics.
ConfigurePort ==
  /\ Alive /\ pc = "runLoop"
  /\ portIdx < Len(ports)
  /\ LET port == ports[portIdx + 1]
         colSepIdx == LastIndex(port, ":")
     IN IF colSepIdx < 0
          THEN /\ Exit(ExitPanic)
               /\ UNCHANGED <<portIdx, portMap>>
          ELSE /\ portMap' = MapPut(portMap, SliceTo(port, colSepIdx),
                                    SliceFrom(port, colSepIdx + 1))
               /\ portIdx' = portIdx + 1
               /\ UNCHANGED <<pc, exitStatus>>
  /\ UNCHANGED <<inputVars, cfg, sigVars, flagVars, startVars, stopVars,
                 readVars, histVars>>

\* configure, after the loop: the Config is built from the flags.
Config == [PortMap |-> portMap, Volumes |-> vols,
           RestartPolicy |-> restartPolicy]

\* Mutant of RunLoopEnter: runLoop clears the flag before it starts looping.
RunLoopEnterResetsFlag ==
  /\ Alive /\ pc = "runLoop"
  /\ portIdx = Len(ports)
  /\ cfg' = {Config}
  /\ pc' = "loopCond"
  /\ stopMonitoring' = FALSE
  /\ loopView' = FALSE
  /\ UNCHANGED <<inputVars, portIdx, portMap, exitStatus, sigVars, flagWrites, startVars,
                 stopVars, readVars, histVars>>

\* runLoop, up to the loop: cfg := configure() returns the Config.
RunLoopEnter ==
  /\ Alive /\ pc = "runLoop"
  /\ portIdx = Len(ports)
  /\ cfg' = {Config}
  /\ pc' = "loopCond"
  /\ UNCHANGED <<inputVars, portIdx, portMap, exitStatus, sigVars, flagVars, startVars, stopVars,
                 readVars, histVars>>

\* Mutant of AfterLoopCond: the condition is inverted (for stopMonitoring).
AfterLoopCondInverted(flag) == IF flag THEN "callStart" ELSE "loopExit"

\* for !stopMonitoring: one read of the flag.
AfterLoopCond(flag) == IF flag THEN "loopExit" ELSE "callStart"

LoopCond ==
  /\ Alive /\ pc = "loopCond"
  /\ pc' = AfterLoopCond(loopView)
  /\ readTrue' = (readTrue \/ loopView)
  /\ staleRead' = (staleRead \/ loopView # stopMonitoring)
  /\ flagAtCond' = stopMonitoring
  /\ UNCHANGED <<inputVars, cfgVars, exitStatus, sigVars, flagVars, startVars,
                 stopVars, startsAfterFlag, backoffDone>>

\* err := containersvc.Start(imgPath, img, cfg): the call begins.  The adapter
\* either launches the container, and the call blocks while it runs, or
\* fails to launch it.
CallStart ==
  /\ Alive /\ pc = "callStart"
  /\ pc' = "inStart"
  /\ startCalls' = Count(startCalls, MaxStarts)
  /\ \E launched \in BOOLEAN : ctr' = IF launched THEN "running" ELSE "failed"
  /\ startsAfterFlag' = IF stopMonitoring
                          THEN Count(startsAfterFlag, MaxStarts)
                          ELSE startsAfterFlag
  /\ UNCHANGED <<inputVars, cfgVars, exitStatus, sigVars, flagVars, startErr,
                 startReturns, flagAtReturn, stopVars, readVars, flagAtCond,
                 backoffDone>>

\* The errors Start can return for each way the container ended.
StartErrs(c) == IF c = "failed" THEN {TRUE} ELSE BOOLEAN

\* Mutant of AfterStart: a failed Start ends the loop.
AfterStartEscalates(err) == IF err THEN "loopExit" ELSE "afterStart"

\* if err := Start(...); err != nil { glog.Errorf(...) }: the error is logged
\* and nothing else depends on it.
AfterStart(err) == "afterStart"

StartReturn ==
  /\ Alive /\ pc = "inStart"
  /\ ctr \in {"failed", "exited", "stopped"}
  /\ \E err \in StartErrs(ctr) :
       /\ startErr' = err
       /\ pc' = AfterStart(err)
  /\ ctr' = "none"
  /\ startReturns' = Count(startReturns, MaxStarts)
  /\ flagAtReturn' = stopMonitoring
  /\ backoffDone' = FALSE
  /\ UNCHANGED <<inputVars, cfgVars, exitStatus, sigVars, flagVars, startCalls,
                 stopVars, readVars, flagAtCond, startsAfterFlag>>

\* Mutant of AfterStartCheck: the loop is left where it should sleep.
AfterStartCheckGivesUp(flag) == IF flag THEN "loopCond" ELSE "loopExit"

\* Mutant of AfterStartCheck: the backoff sleep is left out.
AfterStartCheckNoSleep(flag) == "loopCond"

\* Mutant of AfterStartCheck: the sleep is not guarded by the flag.
AfterStartCheckAlwaysSleeps(flag) == "sleep"

\* if !stopMonitoring { glog.Infof(...); time.Sleep(2s) }: one read of the flag.
AfterStartCheck(flag) == IF flag THEN "loopCond" ELSE "sleep"

StartReturnCheck ==
  /\ Alive /\ pc = "afterStart"
  /\ pc' = AfterStartCheck(loopView)
  /\ readTrue' = (readTrue \/ loopView)
  /\ staleRead' = (staleRead \/ loopView # stopMonitoring)
  /\ UNCHANGED <<inputVars, cfgVars, exitStatus, sigVars, flagVars, startVars,
                 stopVars, histVars>>

\* time.Sleep(time.Second * 2) returns; nothing wakes it early.
SleepDone ==
  /\ Alive /\ pc = "sleep"
  /\ pc' = "loopCond"
  /\ backoffDone' = TRUE
  /\ UNCHANGED <<inputVars, cfgVars, exitStatus, sigVars, flagVars, startVars,
                 stopVars, readVars, flagAtCond, startsAfterFlag>>

\* The loop is left: runLoop logs and returns, main flushes and returns, and
\* the process ends with every goroutine still running.
MainReturn ==
  /\ Alive /\ pc = "loopExit"
  /\ Exit(ExitSuccess)
  /\ UNCHANGED <<inputVars, cfgVars, sigVars, flagVars, startVars, stopVars, readVars, histVars>>

\* ------------------------------------------------------- stopSigHandler

\* sig := <-sigChan
SigRecv ==
  /\ Alive /\ hpc = "recv"
  /\ sigChan # <<>>
  /\ sig' = Head(sigChan)
  /\ sigChan' = Tail(sigChan)
  /\ hpc' = "setFlag"
  /\ UNCHANGED <<inputVars, cfgVars, pc, exitStatus, registered, sigArrivals, flagVars,
                 startVars, stopVars, readVars, histVars>>

\* stopMonitoring = true
SetFlag ==
  /\ Alive /\ hpc = "setFlag"
  /\ stopMonitoring' = TRUE
  /\ flagWrites' = Count(flagWrites, MaxStops)
  /\ hpc' = "callStop"
  /\ UNCHANGED <<inputVars, cfgVars, pc, exitStatus, registered, sigChan, sig,
                 sigArrivals, loopView, startVars, stopVars, readVars, histVars>>

\* containersvc.Stop(img, *ctrName, false): the request is issued.
StopForce == FALSE

\* What the adapter does with a Stop request: a running container is stopped,
\* unless the request fails; with no running container there is nothing to
\* stop.
StopEffect(c, ok) ==
  IF c = "running"
    THEN IF ok THEN [ctr |-> "stopped", outcome |-> "stopped"]
               ELSE [ctr |-> c, outcome |-> "failed"]
    ELSE [ctr |-> c, outcome |-> "noContainer"]

CallStop ==
  /\ Alive /\ hpc = "callStop"
  /\ stopReqs' = IF Len(stopReqs) < MaxStops THEN Append(stopReqs, StopForce)
                                             ELSE stopReqs
  /\ \E ok \in BOOLEAN :
       /\ ctr' = StopEffect(ctr, ok).ctr
       /\ stopOutcome' = StopEffect(ctr, ok).outcome
  /\ hpc' = "inStop"
  /\ UNCHANGED <<inputVars, cfgVars, pc, exitStatus, registered, sigChan, sig,
                 sigArrivals, flagVars, startErr, startCalls, startReturns,
                 flagAtReturn, readVars, histVars>>

\* Mutant of AfterStop: the handler waits for the next signal (for { ... }).
AfterStopWaitsAgain == "recv"

\* Stop returns; an error is logged; the goroutine ends.
AfterStop == "done"

StopReturn ==
  /\ Alive /\ hpc = "inStop"
  /\ hpc' = AfterStop
  /\ UNCHANGED <<inputVars, cfgVars, pc, exitStatus, registered, sigChan, sig,
                 sigArrivals, flagVars, startVars, stopVars, readVars, histVars>>

\* ------------------------------------------------------------ environment

\* A termination signal is sent to the process.  signal.Notify does not block
\* sending to the channel: with the buffer full the signal is dropped.
Signal(s) ==
  /\ Alive /\ registered
  /\ sigArrivals < MaxSignals
  /\ sigArrivals' = sigArrivals + 1
  /\ sigChan' = IF Len(sigChan) < SigChanCap THEN Append(sigChan, s)
                                             ELSE sigChan
  /\ UNCHANGED <<inputVars, cfgVars, pc, exitStatus, registered, hpc, sig, flagVars,
                 startVars, stopVars, readVars, histVars>>

\* The container exits by itself (clean exit or crash).
ContainerExit ==
  /\ Alive /\ ctr = "running"
  /\ ctr' = "exited"
  /\ UNCHANGED <<inputVars, cfgVars, pc, exitStatus, sigVars, flagVars, startErr,
                 startCalls, startReturns, flagAtReturn, stopVars, readVars, histVars>>

\* The handler's write of stopMonitoring becomes visible to the loop.
FlagVisible ==
  /\ Alive /\ loopView # stopMonitoring
  /\ loopView' = stopMonitoring
  /\ UNCHANGED <<inputVars, cfgVars, pc, exitStatus, sigVars, stopMonitoring,
                 flagWrites, startVars, stopVars, readVars, histVars>>

\* ---------------------------------------------------------- specification

MainStep ==
  \/ ParseCmdLnArgs
  \/ ValidateCmdLnArgs
  \/ ValidateCmdLnFlags
  \/ RegStopSigHandler
  \/ ConfigurePort
  \/ RunLoopEnter
  \/ LoopCond
  \/ CallStart
  \/ StartReturn
  \/ StartReturnCheck
  \/ SleepDone
  \/ MainReturn

HandlerStep ==
  \/ SigRecv
  \/ SetFlag
  \/ CallStop
  \/ StopReturn

Next ==
  \/ ParseCmdLnArgs
  \/ ValidateCmdLnArgs
  \/ ValidateCmdLnFlags
  \/ RegStopSigHandler
  \/ ConfigurePort
  \/ RunLoopEnter
  \/ LoopCond
  \/ CallStart
  \/ StartReturn
  \/ StartReturnCheck
  \/ SleepDone
  \/ MainReturn
  \/ SigRecv
  \/ SetFlag
  \/ CallStop
  \/ StopReturn
  \/ \E s \in StopSignals : Signal(s)
  \/ ContainerExit
  \/ FlagVisible

Spec == Init /\ [][Next]_vars

\* The start-up path alone, from main to the Config that runLoop builds, over
\* every combination of flag values.
NextCfg ==
  \/ ParseCmdLnArgs
  \/ ValidateCmdLnArgs
  \/ ValidateCmdLnFlags
  \/ RegStopSigHandler
  \/ ConfigurePort
  \/ RunLoopEnter

CfgSpec == InitCfg /\ [][NextCfg]_vars

\* Both goroutines keep being scheduled, and a write to memory reaches the
\* other goroutine in the end.  Nothing obliges the environment to send a
\* signal or the container to exit.
FairSpec ==
  /\ Spec
  /\ WF_vars(MainStep)
  /\ WF_vars(HandlerStep)
  /\ WF_vars(FlagVisible)

TypeOK ==
  /\ nArgs \in 0..MaxArgs
  /\ imgExists \in BOOLEAN
  /\ ports \in SeqsUpTo(PortEntries, MaxPorts)
  /\ vols \in SeqsUpTo(VolEntries, 1)
  /\ restartPolicy \in PolicyValues
  /\ portIdx \in 0..Len(ports)
  /\ \A e \in portMap : \A f \in portMap : e[1] = f[1] => e = f
  /\ cfg \in {{}, {Config}}
  /\ pc \in {"parseCmdLnArgs", "validateCmdLnArgs", "validateCmdLnFlags",
             "regStopSigHandler",
             "runLoop", "loopCond", "callStart", "inStart", "afterStart",
             "sleep", "loopExit", "exited"}
  /\ exitStatus \in {{}, {ExitSuccess}, {ExitFailure}, {ExitPanic}}
  /\ hpc \in {"notStarted", "recv", "setFlag", "callStop", "inStop", "done"}
  /\ sig \in StopSignals \cup {"none"}
  /\ Len(sigChan) <= SigChanCap
  /\ ctr \in {"none", "running", "failed", "exited", "stopped"}
  /\ stopOutcome \in {"none", "stopped", "failed", "noContainer"}
  /\ startCalls \in 0..MaxStarts /\ startReturns \in 0..MaxStarts
  /\ flagWrites \in 0..MaxStops /\ Len(stopReqs) <= MaxStops
  /\ sigArrivals \in 0..MaxSignals
  /\ readTrue \in BOOLEAN /\ staleRead \in BOOLEAN /\ flagAtReturn \in BOOLEAN
  /\ flagAtCond \in BOOLEAN /\ backoffDone \in BOOLEAN
  /\ startsAfterFlag \in 0..MaxStarts

\* The supervisor loop has left Running: the loop is exited, or the process
\* has ended by main returning.
LoopStopped == pc = "loopExit" \/ (pc = "exited" /\ exitStatus = {ExitSuccess})

\* The listener has received a termination signal.
SignalReceived == hpc \in {"setFlag", "callStop", "inStop", "done"}

\* ------------------------------------------------------------------ C1
\* C1: once the loop has read the flag as true it begins no Start call: with
\* a true read behind it the loop is at its condition or has left the loop,
\* never at, in or after a Start call, nor in the backoff sleep.
C1_NoStartAfterReadTrue ==
  readTrue => pc \in {"loopCond", "loopExit", "exited"}

\* C1 witness: the loop ran the container, then read the flag true and left.
C1_Witness == readTrue /\ startCalls >= 1 /\ pc = "loopExit"

C3_SignalLeadsToStopped ==
  SignalReceived ~> (LoopStopped \/ stopOutcome = "failed" \/ staleRead)

\* ------------------------------------------------------------------ C4
\* C4: absent a signal, Start is called once more after every return: while
\* the counters are below their cap the calls are the returns plus the call
\* in progress, and from every Start return the loop reaches the next Start
\* call unless a signal arrives.
C4_RestartAlways ==
  /\ [](startCalls < MaxStarts =>
          startCalls = startReturns + (IF pc = "inStart" THEN 1 ELSE 0))
  /\ ((pc = "afterStart" /\ sigArrivals = 0)
        ~> (pc = "inStart" \/ sigArrivals > 0))

\* C4 witness: no signal, one Start returned and the second is in progress.
C4_Witness ==
  sigArrivals = 0 /\ startReturns = 1 /\ startCalls = 2 /\ pc = "inStart"

\* ------------------------------------------------------------------ C5
\* C5: when the flag was already true as Start returned, the loop does not
\* sleep in that iteration and begins no other Start call.
C5_NoSleepNoStartAfterFlaggedReturn ==
  flagAtReturn => pc \notin {"sleep", "callStart", "inStart"}

\* ------------------------------------------------------------------ C6
\* C6 as stated: the loop is never in the backoff sleep while the flag is
\* true.
C6_NeverSleepingWhileStopRequested == ~(pc = "sleep" /\ stopMonitoring)

\* C6 amended: the loop enters the backoff sleep only from a flag check that
\* read false; after a check that read true the sleep is skipped.
C6_SleepOnlyAfterReadFalse ==
  [][/\ (pc' = "sleep" /\ pc # "sleep") => (pc = "afterStart" /\ ~loopView)
     /\ (pc = "afterStart" /\ pc' # pc /\ loopView) => pc' = "loopCond"]_vars

\* C6 witness: a Start returned, the check read true and the sleep was
\* skipped.
C6_Witness == readTrue /\ startReturns >= 1 /\ pc = "loopCond"

\* ------------------------------------------------------------------ C7
\* C7: the flag starts false, never goes from true to false, and goes from
\* false to true only by the listener's write on the signal it received,
\* which is the first write.
C7_FlagMonotonic ==
  /\ ~stopMonitoring
  /\ [][/\ stopMonitoring => stopMonitoring'
        /\ stopMonitoring' # stopMonitoring =>
             (hpc = "setFlag" /\ sig \in StopSignals /\ flagWrites = 0)
        /\ flagWrites' <= 1]_vars

\* C7 witness: the flag was written once while the container runs.
C7_Witness == stopMonitoring /\ flagWrites = 1 /\ pc = "inStart"

\* ------------------------------------------------------------------ C8
\* C8: a Start return leads to the same flag check whether or not it
\* returned an error, the process goes on, and what follows the check is
\* decided by the flag alone.
C8_StartErrorNotEscalated ==
  [][/\ (pc = "inStart" /\ pc' # pc) =>
          (pc' = "afterStart" /\ exitStatus' = {})
     /\ (pc = "afterStart" /\ pc' # pc) =>
          (pc' = (IF loopView THEN "loopCond" ELSE "sleep")
             /\ exitStatus' = {})]_vars

\* C8 witness: Start returned an error and Start has been called again.
C8_Witness == startErr /\ pc = "inStart" /\ startCalls >= 2

\* ------------------------------------------------------------------ C9
\* C9: when the Stop request failed and left the container running, the
\* listener issues no second request and the loop still leaves Running
\* (behaviours in which a read of the loop missed the write are left out).
C9_StopErrorStillTerminates ==
  /\ [](Len(stopReqs) <= 1)
  /\ (stopOutcome = "failed" ~> (LoopStopped \/ staleRead))

\* ------------------------------------------------------------------ C10
\* C10: with other than two positional arguments, or an image path that does
\* not exist, the process gets no further than the argument checks: it can
\* only have exited with status 255, no Start or Stop call is made, the
\* listener is not registered and the loop is not begun.
C10_BadArgsExit255 ==
  (nArgs # 2 \/ ~imgExists) =>
    /\ pc \in {"parseCmdLnArgs", "validateCmdLnArgs", "exited"}
    /\ pc = "exited" => exitStatus = {ExitFailure}
    /\ startCalls = 0 /\ stopReqs = <<>>
    /\ ~registered /\ hpc = "notStarted"

\* C10 witness: two arguments, the image path does not exist, exit 255.
C10_Witness ==
  nArgs = 2 /\ ~imgExists /\ pc = "exited" /\ exitStatus = {ExitFailure}

\* ------------------------------------------------------------------ C11
\* C11: with a restart policy that is none of the four literals, or a port
\* or volume value without a colon, the process gets no further than the
\* validation: it can only have exited with status 255, configure has not
\* run (no portMap entry, no Config) and no Start or Stop call is made.
C11_BadFlagsExit255 ==
  (\/ restartPolicy \notin {"never", "on-failure", "unless-stopped", "always"}
   \/ \E i \in 1..Len(ports) : ~Contains(ports[i], ":")
   \/ \E i \in 1..Len(vols) : ~Contains(vols[i], ":")) =>
    /\ pc \in {"parseCmdLnArgs", "validateCmdLnArgs", "validateCmdLnFlags",
               "exited"}
    /\ pc = "exited" => exitStatus = {ExitFailure}
    /\ cfg = {} /\ portIdx = 0 /\ portMap = {}
    /\ startCalls = 0 /\ stopReqs = <<>>

\* C11 witness: the arguments and the other flags are good, the restart
\* policy is not, and the flag validation has exited with 255.
C11_Witness ==
  /\ nArgs = 2 /\ imgExists
  /\ restartPolicy = "sometimes"
  /\ \A i \in 1..Len(ports) : Contains(ports[i], ":")
  /\ \A i \in 1..Len(vols) : Contains(vols[i], ":")
  /\ pc = "exited" /\ exitStatus = {ExitFailure}

\* ------------------------------------------------------------------ C12
\* C12: when configure has put an entry that contains a colon into portMap,
\* portMap holds a pair whose key, a colon and whose value make up the
\* entry, the value holding no colon: the key is everything before the last
\* colon and the value everything after it.  (portIdx is the number of the
\* entry put last.)
C12_PortSplitAtLastColon ==
  (portIdx >= 1 /\ Contains(ports[portIdx], ":")) =>
    \E e \in portMap :
      /\ e[1] \o <<":">> \o e[2] = ports[portIdx]
      /\ ~Contains(e[2], ":")

\* C12 witness: "8:9" and then "1:8:9" were put, one of either shape.
C12_Witness ==
  /\ ports = << <<"8", ":", "9">>, <<"1", ":", "8", ":", "9">> >>
  /\ portIdx = 2
  /\ portMap = { << <<"8">>, <<"9">> >>, << <<"1", ":", "8">>, <<"9">> >> }

\* ------------------------------------------------------------------ C18
\* C18: every port entry that reaches configure holds a colon, so its last
\* colon index is not negative and the slicing never panics.
C18_NoSplitWithoutColon ==
  /\ exitStatus # {ExitPanic}
  /\ pc \in {"runLoop", "loopCond"} =>
       \A i \in 1..Len(ports) : LastIndex(ports[i], ":") >= 0

\* C18 witness: configure has split two entries and returned the Config.
C18_Witness == pc = "loopCond" /\ Len(ports) = 2 /\ portIdx = 2 /\ cfg # {}

\* ------------------------------------------------------------------ C13
\* C13: the listener is registered before the loop begins: whenever main is
\* in runLoop, or a Start call has been made, the signal subscription exists
\* and the listener goroutine has been started.
C13_ListenerBeforeLoop ==
  (\/ pc \in {"runLoop", "loopCond", "callStart", "inStart", "afterStart",
              "sleep", "loopExit"}
   \/ startCalls > 0) =>
    (registered /\ hpc # "notStarted")

\* C13 witness: the first Start call is in progress with the listener waiting.
C13_Witness == pc = "inStart" /\ startCalls = 1 /\ registered /\ hpc = "recv"

\* ------------------------------------------------------------------ C14
\* C14: a Start call that begins with the flag already written is the first
\* such call, and the flag was still unwritten when the loop last evaluated
\* its condition.
C14_AtMostOneLateStart ==
  [][(pc = "callStart" /\ pc' = "inStart" /\ stopMonitoring) =>
       (startsAfterFlag = 0 /\ ~flagAtCond)]_vars

\* ------------------------------------------------------------------ C15
\* C15: a Start call that follows a Start return is begun only after a
\* backoff sleep has ended since that return.
C15_BackoffBetweenStarts ==
  (pc \in {"callStart", "inStart"} /\ startReturns >= 1) => backoffDone

\* C15 witness: Start failed, the loop slept, and Start is called again.
C15_Witness ==
  pc = "inStart" /\ startReturns >= 1 /\ startErr /\ backoffDone

\* ------------------------------------------------------------------ C16
\* A Start call has returned because the Stop request stopped its container.
ReturnedByStop == stopOutcome = "stopped" /\ ctr # "stopped"

\* C16, its first part: whenever a Stop request has been issued the flag is
\* already true.
FlagSetBeforeStop == stopReqs # <<>> => stopMonitoring

\* C16: the flag is true whenever a Stop request has been issued, and after
\* a Start call has returned because of that request no Start call follows.
C16_NoRestartAfterStop ==
  /\ FlagSetBeforeStop
  /\ ReturnedByStop => pc \notin {"callStart", "inStart"}

\* ------------------------------------------------------------------ C17
\* C17: the loop is left only on a stop request: whenever the loop has been
\* left, the flag is true and the loop has read it as true.
C17_ExitOnlyOnStop == LoopStopped => (stopMonitoring /\ readTrue)

\* C17 witness: the loop is left after Start failed and was called again.
C17_Witness == pc = "loopExit" /\ startReturns >= 2 /\ startErr

\* ------------------------------------------------------------------ C19
\* C19: once the flag is written, every read of it by the loop returns true.
C19_ReadsSeeWrite == ~staleRead

====
